---- MODULE Spec2Model ----
(***************************************************************************)
(* Model of the ISO 9660 storage back-end (src/src/lib.rs).                *)
(*                                                                         *)
(* The back-end is stateless: every operation opens the image, walks the   *)
(* decoded directory tree and shapes a result.  The state of the model is  *)
(* the environment the back-end runs against (the image file and the       *)
(* volume it decodes to) and the record of the last operation: its inputs, *)
(* the outcome of the internal call to Storage::find, and its result.      *)
(*                                                                         *)
(* Text is modelled as a sequence of characters, a character as a one      *)
(* letter string; "xFF" stands for a byte that is not valid Unicode.       *)
(***************************************************************************)
EXTENDS Integers, Sequences, FiniteSets, TLC

VARIABLES image, vol, last

vars == <<image, vol, last>>

----------------------------------------------------------------------------
(* Bounds of the model                                                     *)

MaxChildren == 2        \* entries in the root directory
MaxPathLen == 2         \* components of a requested path after its leading one
MaxFileLen == 2         \* bytes in a file

----------------------------------------------------------------------------
(* Text                                                                    *)

InvalidByte == "xFF"

\* char::to_uppercase on the alphabet of the model (str::to_uppercase maps it
\* over the text).
UpperChar(c) ==
    CASE c = "a" -> "A"
      [] c = "b" -> "B"
      [] c = "c" -> "C"
      [] OTHER -> c

\* u8::to_ascii_lowercase, the folding eq_ignore_ascii_case compares under.
AsciiLowerChar(c) ==
    CASE c = "A" -> "a"
      [] c = "B" -> "b"
      [] c = "C" -> "c"
      [] OTHER -> c

to_uppercase(s) == [i \in 1..Len(s) |-> UpperChar(s[i])]

eq_ignore_ascii_case(s, t) ==
    /\ Len(s) = Len(t)
    /\ \A i \in 1..Len(s) : AsciiLowerChar(s[i]) = AsciiLowerChar(t[i])

\* OsStr::to_str: Some(text) when the text is valid Unicode.
to_str_is_some(s) == \A i \in 1..Len(s) : s[i] # InvalidByte

----------------------------------------------------------------------------
(* The decoded volume: cdfs::DirectoryEntry and the items of                *)
(* ISODirectory::contents(), which yields Err for a record that does not   *)
(* parse.                                                                  *)

FileData == [i \in 1..MaxFileLen |-> 10 + i]

DirLength == 2048
SymlinkLength == 9

FileEntry(id) == [kind |-> "File", id |-> id, data |-> FileData, children |-> <<>>]
SymlinkEntry(id) == [kind |-> "Symlink", id |-> id, data |-> <<>>, children |-> <<>>]
DirEntry(id, ch) == [kind |-> "Directory", id |-> id, data |-> <<>>, children |-> ch]
ParseError == [kind |-> "ParseError", id |-> <<>>, data |-> <<>>, children |-> <<>>]

RootDir(ch) == DirEntry(<<>>, ch)

SeqsUpTo(S, n) == UNION {[1..k -> S] : k \in 0..n}

FileIdents == {<<"a", "b">>}
LinkIdents == {<<"C">>}
DirIdents == {<<"A", "B">>}

LeafEntries ==
    {ParseError} \cup {FileEntry(id) : id \in FileIdents}
                 \cup {SymlinkEntry(id) : id \in LinkIdents}

\* A sub-directory is empty or holds one entry.
SubListings == {<<>>} \cup {<<e>> : e \in LeafEntries}

RootEntries == LeafEntries \cup {DirEntry(id, ch) : id \in DirIdents, ch \in SubListings}

Volumes == {RootDir(ch) : ch \in SeqsUpTo(RootEntries, MaxChildren)}

ImageStates == {"unreadable", "malformed", "valid"}

----------------------------------------------------------------------------
(* Requests: std::path::Component sequences as Path::components() yields   *)
(* them: an optional leading RootDir or CurDir, then names and `..`.       *)

Normal(name) == [kind |-> "Normal", name |-> name]
RootDirComp == [kind |-> "RootDir", name |-> <<>>]
CurDirComp == [kind |-> "CurDir", name |-> <<>>]
ParentDirComp == [kind |-> "ParentDir", name |-> <<>>]

PathNames == {<<"a", "b">>, <<"A", "B">>, <<"c">>, <<InvalidByte>>}

TailComps == {Normal(n) : n \in PathNames} \cup {ParentDirComp}
HeadComps == TailComps \cup {RootDirComp, CurDirComp}

\* How a path starts: relative, at the root, or with `.`.
Leads == {<<>>, <<RootDirComp>>, <<CurDirComp>>}

Paths == {h \o t : h \in Leads, t \in SeqsUpTo(TailComps, MaxPathLen)}

\* The paths handed to the mutating operations.
ShortPaths == {h \o t : h \in Leads, t \in SeqsUpTo(TailComps, 1)}

\* start_pos: before, at and beyond the end of a file.
StartPositions == 0..(MaxFileLen + 1)

----------------------------------------------------------------------------
(* Outcomes: unftp_core::storage::Result, and a panic of the calling task. *)

NoValue == [kind |-> "None", id |-> <<>>, data |-> <<>>, children |-> <<>>]

Ok(v) == [tag |-> "Ok", kind |-> "None", text |-> "", name |-> <<>>, val |-> v]
Err(k, t, n) == [tag |-> "Err", kind |-> k, text |-> t, name |-> n, val |-> NoValue]
Panic(t) == [tag |-> "Panic", kind |-> "None", text |-> t, name |-> <<>>, val |-> NoValue]
NotCalled == [tag |-> "NotCalled", kind |-> "None", text |-> "", name |-> <<>>, val |-> NoValue]

\* `?` on the io::Error of File::open: converted by unftp_core's From<io::Error>.
OpenError == Err("FromIoError", "open", <<>>)

----------------------------------------------------------------------------
(* Storage::open_iso and Storage::find                                     *)

\* File::open(..)? then ISO9660::new(file).unwrap()
open_iso(img, v) ==
    CASE img = "unreadable" -> OpenError
      [] img = "malformed" -> Panic("ISO9660::new unwrap")
      [] OTHER -> Ok(v)

\* contents().filter_map(|e| e.ok()).find(|e| e.identifier().eq_ignore_ascii_case(&name))
RECURSIVE ScanFrom(_, _, _)
ScanFrom(children, name, i) ==
    IF i > Len(children) THEN NoValue
    ELSE IF /\ children[i].kind # "ParseError"
            /\ eq_ignore_ascii_case(children[i].id, name)
         THEN children[i]
         ELSE ScanFrom(children, name, i + 1)

next_entry(dir, name) == ScanFrom(dir.children, name, 1)

\* Variant of component_action without the RootDir arm: the root component
\* falls to the arm that rejects.
component_action_RootRejected(comp) ==
    CASE comp.kind = "Normal" -> "lookup"
      [] OTHER -> "unsupported"

\* Variant of component_action whose last arm skips instead of rejecting.
component_action_OthersSkipped(comp) ==
    CASE comp.kind = "Normal" -> "lookup"
      [] OTHER -> "continue"

\* The `match comp` on a component: RootDir is skipped, Normal is looked up,
\* every other kind is rejected.
component_action(comp) ==
    CASE comp.kind = "RootDir" -> "continue"
      [] comp.kind = "Normal" -> "lookup"
      [] OTHER -> "unsupported"

unsupported_component ==
    Err("PermanentFileNotAvailable", "Unsupported path component", <<>>)

\* Variant of not_found with the permanent kind.
not_found_Permanent(name) ==
    Err("PermanentFileNotAvailable", "Path component not found", name)

\* The ok_or_else of the scan: no entry matched `name`.
not_found(name) == Err("TransientFileNotAvailable", "Path component not found", name)

not_a_directory ==
    Err("PermanentFileNotAvailable", "Intermediate path component is not a directory", <<>>)

\* Variant of after_match that descends into whatever matched.
after_match_NoDirectoryCheck(e, is_last) ==
    IF is_last THEN "return" ELSE "descend"

\* What follows a match: the last component returns the entry, any other
\* must be a directory to descend into.
after_match(e, is_last) ==
    IF is_last THEN "return"
    ELSE IF e.kind = "Directory" THEN "descend"
    ELSE "not_a_directory"

\* Variant of Walk that compares the component text with the identifier as
\* they are, without upper-casing and without ignoring case.
RECURSIVE ScanExact(_, _, _)
ScanExact(children, name, i) ==
    IF i > Len(children) THEN NoValue
    ELSE IF children[i].kind # "ParseError" /\ children[i].id = name
         THEN children[i]
         ELSE ScanExact(children, name, i + 1)

RECURSIVE Walk_CaseSensitive(_, _, _)
Walk_CaseSensitive(current_dir, path, i) ==
    IF i > Len(path) THEN Ok(current_dir)
    ELSE LET comp == path[i]
             act == component_action(comp)
         IN
      CASE act = "continue" -> Walk_CaseSensitive(current_dir, path, i + 1)
        [] act = "lookup" ->
             IF ~to_str_is_some(comp.name) THEN Panic("to_str unwrap")
             ELSE LET name == comp.name
                      e == ScanExact(current_dir.children, name, 1)
                  IN IF e = NoValue THEN not_found(name)
                     ELSE LET step == after_match(e, i = Len(path))
                          IN CASE step = "return" -> Ok(e)
                               [] step = "descend" -> Walk_CaseSensitive(e, path, i + 1)
                               [] OTHER -> not_a_directory
        [] OTHER -> unsupported_component

\* The `while let Some(comp) = components.next()` loop, from component i on.
RECURSIVE Walk(_, _, _)
Walk(current_dir, path, i) ==
    IF i > Len(path) THEN Ok(current_dir)
    ELSE LET comp == path[i]
             act == component_action(comp)
         IN
      CASE act = "continue" -> Walk(current_dir, path, i + 1)
        [] act = "lookup" ->
             IF ~to_str_is_some(comp.name) THEN Panic("to_str unwrap")
             ELSE LET name == to_uppercase(comp.name)
                      e == next_entry(current_dir, name)
                  IN IF e = NoValue THEN not_found(name)
                     ELSE LET step == after_match(e, i = Len(path))
                          IN CASE step = "return" -> Ok(e)
                               [] step = "descend" -> Walk(e, path, i + 1)
                               [] OTHER -> not_a_directory
        [] OTHER -> unsupported_component

find(img, v, path) ==
    LET iso == open_iso(img, v)
    IN IF iso.tag # "Ok" THEN iso ELSE Walk(iso.val, path, 1)

----------------------------------------------------------------------------
(* IsoMeta and the StorageBackend operations.  An operation yields          *)
(* [result, resolved, opened]: its result, the outcome of its call to find *)
(* (NotCalled when it makes none) and whether it opened the image.         *)

EntrySize(e) ==
    CASE e.kind = "Directory" -> DirLength
      [] e.kind = "File" -> Len(e.data)
      [] OTHER -> SymlinkLength

\* group, owner and modified are copied from the decoder's entry and are left
\* out: no operation branches on them.
IsoMeta(e) ==
    [len |-> EntrySize(e), dir |-> e.kind = "Directory", sym |-> e.kind = "Symlink"]

Fileinfo(e) == [path |-> e.id, metadata |-> IsoMeta(e)]

Outcome(res, found) == [result |-> res, resolved |-> found, opened |-> TRUE]

metadata(img, v, path) ==
    LET entry == find(img, v, path)
    IN IF entry.tag # "Ok" THEN Outcome(entry, entry)
       ELSE Outcome(Ok(IsoMeta(entry.val)), entry)

\* The `for entry in d.contents()` loop with its entry.unwrap().
RECURSIVE ListFrom(_, _, _)
ListFrom(children, i, entries) ==
    IF i > Len(children) THEN Ok(entries)
    ELSE IF children[i].kind = "ParseError" THEN Panic("entry unwrap")
    ELSE ListFrom(children, i + 1, Append(entries, Fileinfo(children[i])))

\* Variant of list that answers a non-directory with an empty listing.
list_EmptyForNonDirectory(img, v, path) ==
    LET e == find(img, v, path)
    IN IF e.tag # "Ok" THEN Outcome(e, e)
       ELSE IF e.val.kind = "Directory" THEN Outcome(ListFrom(e.val.children, 1, <<>>), e)
       ELSE Outcome(Ok(<<>>), e)

list(img, v, path) ==
    LET e == find(img, v, path)
    IN IF e.tag # "Ok" THEN Outcome(e, e)
       ELSE IF e.val.kind = "Directory" THEN Outcome(ListFrom(e.val.children, 1, <<>>), e)
       ELSE Outcome(Err("FileNameNotAllowedError", "", <<>>), e)

\* Variant of read_to_end that reads from the start whatever the cursor is.
read_to_end_FromStart(data, pos) == data

\* ISOFileReader: seek(SeekFrom::Start(pos)) moves the cursor, also past
\* the end; read_to_end yields the bytes from the cursor to the end.
read_to_end(data, pos) == SubSeq(data, pos + 1, Len(data))

\* io names the step at which the decoder's reader reports an I/O error.
get(img, v, path, start_pos, io) ==
    LET entry == find(img, v, path)
    IN IF entry.tag # "Ok" THEN Outcome(entry, entry)
       ELSE IF entry.val.kind = "File" THEN
              IF start_pos > 0 /\ io = "seek"
                THEN Outcome(Err("PermanentFileNotAvailable", "seek error", <<>>), entry)
              ELSE IF io = "read"
                THEN Outcome(Err("PermanentFileNotAvailable", "read error", <<>>), entry)
              ELSE Outcome(Ok(read_to_end(entry.val.data, IF start_pos > 0 THEN start_pos ELSE 0)),
                           entry)
       ELSE Outcome(Err("PermanentFileNotAvailable", "", <<>>), entry)

cwd(img, v, path) ==
    LET d == find(img, v, path)
    IN IF d.tag # "Ok" THEN Outcome(d, d) ELSE Outcome(Ok(NoValue), d)

Denied == [result |-> Err("PermissionDenied", "", <<>>), resolved |-> NotCalled,
           opened |-> FALSE]

\* Variant of put that resolves the path before it denies.
put_ResolvesFirst(img, v, path, start_pos) ==
    LET e == find(img, v, path)
    IN IF e.tag # "Ok" THEN Outcome(e, e)
       ELSE Outcome(Err("PermissionDenied", "", <<>>), e)

put(img, v, path, start_pos) == Denied
del(img, v, path) == Denied
mkd(img, v, path) == Denied
rename(img, v, from, to) == Denied
rmd(img, v, path) == Denied

----------------------------------------------------------------------------
(* The state machine                                                       *)

Request(op, path, start, io) == [op |-> op, path |-> path, start |-> start, io |-> io]

Record(req, out) ==
    [op |-> req.op, path |-> req.path, start |-> req.start, io |-> req.io,
     result |-> out.result, resolved |-> out.resolved, opened |-> out.opened]

Idle == Record(Request("none", <<>>, 0, "none"),
               [result |-> NotCalled, resolved |-> NotCalled, opened |-> FALSE])

\* The protocol layer awaits one call at a time: `last` is the call whose
\* result the caller holds, Idle between calls.
\* Storage::new stores the path only; the image it names is whatever is on
\* disk.  An image that does not open or decode has no volume.
Init ==
    /\ image \in ImageStates
    /\ vol \in Volumes
    /\ image # "valid" => vol = RootDir(<<>>)
    /\ last = Idle

Metadata ==
    /\ last = Idle
    /\ \E p \in Paths :
        /\ last' = Record(Request("metadata", p, 0, "none"), metadata(image, vol, p))
        /\ UNCHANGED <<image, vol>>

List ==
    /\ last = Idle
    /\ \E p \in Paths :
        /\ last' = Record(Request("list", p, 0, "none"), list(image, vol, p))
        /\ UNCHANGED <<image, vol>>

\* The reader can report an error only where get calls it.
IoFaults(img, v, p, k) ==
    LET e == find(img, v, p)
    IN IF e.tag = "Ok" /\ e.val.kind = "File"
         THEN {"none", "read"} \cup (IF k > 0 THEN {"seek"} ELSE {})
         ELSE {"none"}

Get ==
    /\ last = Idle
    /\ \E p \in Paths, k \in StartPositions :
      \E io \in IoFaults(image, vol, p, k) :
        /\ last' = Record(Request("get", p, k, io), get(image, vol, p, k, io))
        /\ UNCHANGED <<image, vol>>

Cwd ==
    /\ last = Idle
    /\ \E p \in Paths :
        /\ last' = Record(Request("cwd", p, 0, "none"), cwd(image, vol, p))
        /\ UNCHANGED <<image, vol>>

Put ==
    /\ last = Idle
    /\ \E p \in ShortPaths, k \in StartPositions :
        /\ last' = Record(Request("put", p, k, "none"), put(image, vol, p, k))
        /\ UNCHANGED <<image, vol>>

Del ==
    /\ last = Idle
    /\ \E p \in ShortPaths :
        /\ last' = Record(Request("del", p, 0, "none"), del(image, vol, p))
        /\ UNCHANGED <<image, vol>>

Mkd ==
    /\ last = Idle
    /\ \E p \in ShortPaths :
        /\ last' = Record(Request("mkd", p, 0, "none"), mkd(image, vol, p))
        /\ UNCHANGED <<image, vol>>

Rename ==
    /\ last = Idle
    /\ \E p \in ShortPaths, q \in ShortPaths :
        /\ last' = Record(Request("rename", p, 0, "none"), rename(image, vol, p, q))
        /\ UNCHANGED <<image, vol>>

Rmd ==
    /\ last = Idle
    /\ \E p \in ShortPaths :
        /\ last' = Record(Request("rmd", p, 0, "none"), rmd(image, vol, p))
        /\ UNCHANGED <<image, vol>>

\* The caller takes the result of the call it awaited.
Return ==
    /\ last # Idle
    /\ last' = Idle
    /\ UNCHANGED <<image, vol>>

Next ==
    \/ Return
    \/ Metadata
    \/ List
    \/ Get
    \/ Cwd
    \/ Put
    \/ Del
    \/ Mkd
    \/ Rename
    \/ Rmd

Spec == Init /\ [][Next]_vars

----------------------------------------------------------------------------
(* Vocabulary of the properties, stated apart from the walk above.         *)

ResolvingOps == {"metadata", "list", "get", "cwd"}
MutatingOps == {"put", "del", "mkd", "rename", "rmd"}

Fold(s) == [i \in 1..Len(s) |-> AsciiLowerChar(s[i])]

\* Two texts equal up to ASCII letter case.
SameName(s, t) == Fold(s) = Fold(t)

\* The children of dir that parsed and carry `name` up to case.
Matches(dir, name) ==
    {j \in 1..Len(dir.children) :
        /\ dir.children[j].kind # "ParseError"
        /\ SameName(dir.children[j].id, name)}

\* The first of them in on-disk order, NoValue when there is none.
Lookup(dir, name) ==
    LET m == Matches(dir, name)
    IN IF m = {} THEN NoValue
       ELSE dir.children[CHOOSE j \in m : \A k \in m : j <= k]

IsName(comp) == comp.kind = "Normal" /\ to_str_is_some(comp.name)

\* The directory the first i components of p lead to, NoValue when one of
\* them is not a root component or a name of a directory.
RECURSIVE Reached(_, _)
Reached(p, i) ==
    IF i = 0 THEN vol
    ELSE LET d == Reached(p, i - 1)
         IN IF d = NoValue THEN NoValue
            ELSE IF p[i].kind = "RootDir" THEN d
            ELSE IF IsName(p[i]) /\ Lookup(d, p[i].name).kind = "Directory"
              THEN Lookup(d, p[i].name)
            ELSE NoValue

\* Component i of p is looked up in a directory of the volume.
LookedUp(p, i) ==
    /\ image = "valid"
    /\ Reached(p, i - 1) # NoValue
    /\ IsName(p[i])

Resolving == last.op \in ResolvingOps

Supported(comp) == comp.kind \in {"RootDir", "Normal"}

IsUnsupportedError(r) ==
    r.tag = "Err" /\ r.kind = "PermanentFileNotAvailable"
                  /\ r.text = "Unsupported path component"

IsNotADirectory(r) ==
    r.tag = "Err" /\ r.kind = "PermanentFileNotAvailable"
                  /\ r.text = "Intermediate path component is not a directory"

IsComponentNotFound(r) ==
    r.tag = "Err" /\ r.kind = "TransientFileNotAvailable"

----------------------------------------------------------------------------
(* C1: put, del, mkd, rename and rmd fail with PermissionDenied for every  *)
(* input, whatever the image and the volume are, and neither open the      *)
(* image nor resolve the path.                                             *)
C1_MutatingDenied ==
    last.op \in MutatingOps =>
        /\ last.result.tag = "Err"
        /\ last.result.kind = "PermissionDenied"
        /\ last.resolved = NotCalled
        /\ ~last.opened

\* rename of a path on an image that cannot be opened is denied.
C1_Witness ==
    /\ last.op = "rename"
    /\ image = "unreadable"
    /\ Len(last.path) = 1
    /\ last.result.kind = "PermissionDenied"

(* C2: for a path of root and normal components only, find ends with an    *)
(* entry that is a Directory, a File or a Symlink, or with a classified    *)
(* error; it never ends in a panic.                                        *)
C2_ResolveClassified ==
    (Resolving /\ \A i \in 1..Len(last.path) : Supported(last.path[i])) =>
        \/ /\ last.resolved.tag = "Ok"
           /\ last.resolved.val.kind \in {"Directory", "File", "Symlink"}
        \/ /\ last.resolved.tag = "Err"
           /\ last.resolved.kind \in
                {"TransientFileNotAvailable", "PermanentFileNotAvailable", "FromIoError"}

(* C3: on a decoded volume, resolving `/` or the empty path succeeds with  *)
(* the root directory, whatever its children are.                          *)
C3_RootResolves ==
    (/\ Resolving
     /\ image = "valid"
     /\ \A i \in 1..Len(last.path) : last.path[i].kind = "RootDir") =>
        last.resolved = Ok(vol)

\* cwd("/") on a volume whose root holds a record that does not parse.
C3_Witness ==
    /\ last.op = "cwd"
    /\ last.path = <<RootDirComp>>
    /\ \E j \in 1..Len(vol.children) : vol.children[j].kind = "ParseError"
    /\ last.resolved = Ok(vol)

CaseEqual(p, q) ==
    /\ Len(p) = Len(q)
    /\ \A i \in 1..Len(p) : p[i].kind = q[i].kind /\ SameName(p[i].name, q[i].name)

RECURSIVE NoCaseDuplicates(_)
NoCaseDuplicates(dir) ==
    /\ \A j, k \in 1..Len(dir.children) :
          (/\ j # k
           /\ dir.children[j].kind # "ParseError"
           /\ dir.children[k].kind # "ParseError") =>
              ~SameName(dir.children[j].id, dir.children[k].id)
    /\ \A j \in 1..Len(dir.children) : NoCaseDuplicates(dir.children[j])

SameOutcome(r, t) == r.tag = t.tag /\ r.kind = t.kind /\ r.val = t.val

\* The components equal to c up to ASCII letter case.
CompVariants(c) == {d \in HeadComps : d.kind = c.kind /\ SameName(d.name, c.name)}

\* The paths equal to p up to ASCII letter case.
RECURSIVE CaseVariants(_)
CaseVariants(p) ==
    IF p = <<>> THEN {<<>>}
    ELSE {<<c>> \o r : c \in CompVariants(Head(p)), r \in CaseVariants(Tail(p))}

(* C4: two paths whose components are equal up to ASCII letter case        *)
(* resolve to the same outcome on the same volume, when no directory holds *)
(* two identifiers that differ only in case.                               *)
C4_CaseInsensitive ==
    (Resolving /\ NoCaseDuplicates(vol)) =>
        \A q \in CaseVariants(last.path) :
            SameOutcome(find(image, vol, q), last.resolved)

\* /ab/AB resolved to a file that /AB/ab names as well.
C4_Witness ==
    /\ Resolving
    /\ NoCaseDuplicates(vol)
    /\ last.path = <<RootDirComp, Normal(<<"a", "b">>), Normal(<<"A", "B">>)>>
    /\ last.resolved.tag = "Ok"
    /\ last.resolved.val.kind = "File"

\* B without its first k bytes.
DropFirst(B, k) ==
    IF k >= Len(B) THEN <<>> ELSE [i \in 1..(Len(B) - k) |-> B[i + k]]

(* C5: get(path, k) on a File with bytes B, read without an I/O error of   *)
(* the decoder, returns B without its first k bytes: all of B for k = 0,   *)
(* nothing (and no error) for k at or beyond the length of B.              *)
C5_GetFromOffset ==
    (/\ last.op = "get"
     /\ last.resolved.tag = "Ok"
     /\ last.resolved.val.kind = "File"
     /\ last.io = "none") =>
        last.result = Ok(DropFirst(last.resolved.val.data, last.start))

\* get beyond the end of a file of two bytes.
C5_Witness ==
    /\ last.op = "get"
    /\ last.resolved.tag = "Ok"
    /\ last.resolved.val.kind = "File"
    /\ Len(last.resolved.val.data) >= 2
    /\ last.start > Len(last.resolved.val.data)
    /\ last.io = "none"
    /\ last.result = Ok(<<>>)

(* C6: list on a path that resolves to a File or a Symlink fails with      *)
(* FileNameNotAllowedError and returns no listing.                         *)
C6_ListNeedsDirectory ==
    (/\ last.op = "list"
     /\ last.resolved.tag = "Ok"
     /\ last.resolved.val.kind \in {"File", "Symlink"}) =>
        /\ last.result.tag = "Err"
        /\ last.result.kind = "FileNameNotAllowedError"

\* list of a symbolic link inside a sub-directory.
C6_Witness ==
    /\ last.op = "list"
    /\ Len(last.path) = 3
    /\ last.resolved.tag = "Ok"
    /\ last.resolved.val.kind = "Symlink"
    /\ last.result.kind = "FileNameNotAllowedError"

(* C7: a component that matches a File or a Symlink ends the walk: with    *)
(* NotADirectory (permanent) when a component follows it, whatever that    *)
(* component is, and with the entry itself when it is the last.            *)
C7_NotADirectory ==
    Resolving =>
        \A i \in 1..Len(last.path) :
            (/\ LookedUp(last.path, i)
             /\ Lookup(Reached(last.path, i - 1), last.path[i].name).kind
                    \in {"File", "Symlink"}) =>
                IF i < Len(last.path)
                  THEN IsNotADirectory(last.resolved)
                  ELSE last.resolved =
                         Ok(Lookup(Reached(last.path, i - 1), last.path[i].name))

\* `/x/..` where x names a file of the root directory.
C7_Witness ==
    /\ Resolving
    /\ Len(last.path) = 3
    /\ last.path[1] = RootDirComp
    /\ last.path[3] = ParentDirComp
    /\ LookedUp(last.path, 2)
    /\ Lookup(vol, last.path[2].name).kind = "File"
    /\ IsNotADirectory(last.resolved)

(* C8: resolve fails with ComponentNotFound (transient), carrying the      *)
(* upper-cased name, exactly when a component is looked up in a directory  *)
(* none of whose children matches it; the components before it matched     *)
(* directories.                                                            *)
C8_ComponentNotFound ==
    Resolving =>
        /\ \A i \in 1..Len(last.path) :
              (/\ LookedUp(last.path, i)
               /\ Lookup(Reached(last.path, i - 1), last.path[i].name) = NoValue) =>
                  /\ IsComponentNotFound(last.resolved)
                  /\ last.resolved.name = to_uppercase(last.path[i].name)
        /\ IsComponentNotFound(last.resolved) =>
              \E i \in 1..Len(last.path) :
                  /\ LookedUp(last.path, i)
                  /\ Lookup(Reached(last.path, i - 1), last.path[i].name) = NoValue
                  /\ SameName(last.resolved.name, last.path[i].name)

\* The second name of a rooted path is missing from a sub-directory that
\* holds an entry.
C8_Witness ==
    /\ Resolving
    /\ Len(last.path) = 3
    /\ last.path[1] = RootDirComp
    /\ Reached(last.path, 2) # NoValue
    /\ Reached(last.path, 2) # vol
    /\ Len(Reached(last.path, 2).children) = 1
    /\ IsComponentNotFound(last.resolved)
    /\ last.resolved.name = <<"C">>

HasUnsupported(p) == \E i \in 1..Len(p) : ~Supported(p[i])

FirstUnsupported(p) == CHOOSE i \in 1..Len(p) :
    ~Supported(p[i]) /\ \A j \in 1..(i - 1) : Supported(p[j])

(* C9 as stated, on a volume that decoded: a path with a component other   *)
(* than root or normal fails with UnsupportedPathComponent in metadata,     *)
(* list, get and cwd.                                                       *)
C9_AlwaysUnsupported ==
    (Resolving /\ image = "valid" /\ HasUnsupported(last.path)) =>
        IsUnsupportedError(last.resolved) /\ last.result = last.resolved

(* C9 amended: a path with a component other than root or normal never     *)
(* yields an entry or a result in metadata, list, get and cwd; it fails     *)
(* with UnsupportedPathComponent exactly when the walk reaches the first    *)
(* such component, that is when the image decodes and every component       *)
(* before it is a root component or the name of a directory.                *)
C9_UnsupportedWhenReached ==
    (Resolving /\ HasUnsupported(last.path)) =>
        /\ last.resolved.tag # "Ok"
        /\ last.result.tag # "Ok"
        /\ last.result = last.resolved
        /\ IsUnsupportedError(last.resolved) <=>
              (/\ image = "valid"
               /\ Reached(last.path, FirstUnsupported(last.path) - 1) # NoValue)

\* `..` below a sub-directory is rejected by get.
C9_Witness ==
    /\ last.op = "get"
    /\ Len(last.path) = 3
    /\ last.path[1] = RootDirComp
    /\ last.path[3] = ParentDirComp
    /\ IsUnsupportedError(last.result)

Parsed(e) == e.kind # "ParseError"

(* C10: a child the decoder fails to parse is treated as absent: list on a  *)
(* directory returns one (name, metadata) pair for every child that parsed, *)
(* in on-disk order, and resolve skips the child in its scan.               *)
C10_ParseFailuresSkipped ==
    /\ (/\ last.op = "list"
        /\ last.resolved.tag = "Ok"
        /\ last.resolved.val.kind = "Directory") =>
          LET kept == SelectSeq(last.resolved.val.children, Parsed)
          IN last.result = Ok([j \in 1..Len(kept) |-> Fileinfo(kept[j])])
    /\ Resolving =>
          \A i \in 1..Len(last.path) :
              (/\ LookedUp(last.path, i)
               /\ i = Len(last.path)
               /\ Lookup(Reached(last.path, i - 1), last.path[i].name) # NoValue) =>
                  last.resolved = Ok(Lookup(Reached(last.path, i - 1), last.path[i].name))

====
